---- MODULE Spec2Model ----
(***************************************************************************)
(* Model of pdf_scrub.py (PDFScrubber): the forensic validator and the     *)
(* scrub_pdf orchestration over a small file system.                       *)
(*                                                                         *)
(* A file is a record of the features the code reads through PyPDF2,       *)
(* pikepdf and raw byte reads.  Entropies are kept in tenths of a bit      *)
(* (7.5 bits = 75).  A document has one page.                              *)
(***************************************************************************)
EXTENDS Integers, Sequences, FiniteSets, TLC

\* ------------------------------------------------------------------ bounds
\* Most objects (pdf.objects) in a document handed to the validator.
MaxObjects == 1
\* Most annotations on the page of a document handed to the validator.
MaxAnnots == 1
\* Most chunks (a key, a vendor token, a delimiter) a byte buffer is made of.
MaxChunks == 4
\* Longest byte string, over three byte values, whose entropy is computed.
MaxNames == 2
MaxData == 4

\* ------------------------------------------------------- program constants
\* self.steganography_threshold = 7.5, in tenths of a bit.
steganography_threshold == 75
\* "if len(data) > 100": only substantial data is checked.
MinDataLen == 100

SeqsUpTo(S, n) == UNION {[1..k -> S] : k \in 0..n}

\* ------------------------------------------------------------ the file model
NoFile == [kind |-> "nofile"]
NoReport == [kind |-> "none"]
NoResult == [kind |-> "none"]

\* Byte tokens searched by check 3 (binary_patterns), in the code's order.
binary_patterns ==
  << "/Title", "/Author", "/Subject", "/Creator", "/Producer", "/CreationDate",
     "/ModDate", "/Keywords", "/Application", "<?xpacket", "<x:xmpmeta",
     "xmp:", "pdf:", "dc:" >>

\* Page-level keys looked for by detect_advanced_metadata.
page_metadata_keys ==
  { "/Metadata", "/PieceInfo", "/SeparationInfo", "/Tabs",
    "/TemplateInstantiated", "/PresSteps", "/UserUnit" }

\* Annotation keys looked for by detect_advanced_metadata.
annot_keys ==
  { "/T", "/Contents", "/RC", "/CreationDate", "/M", "/NM", "/Subj", "/IT",
    "/ExData" }

\* /BaseFont values whose lower-cased text contains one of the validator's
\* attribution_terms (adobe, microsoft, pages, word, acrobat, times,
\* helvetica, arial).
validator_font_values == { "/Helvetica", "/Times-Roman", "/ArialMT" }

\* The tokens present in the raw bytes of a file: those of its streams, the
\* keys of its info dictionary, the XMP packet markers and the /Title entries
\* of its outline items.
RawTokens(f) ==
  f.streamTokens \cup f.docinfo
    \cup (IF f.xmp THEN {"<?xpacket", "<x:xmpmeta"} ELSE {})
    \cup (IF "/Outlines" \in f.rootKeys THEN {"/Title"} ELSE {})

\* ------------------------------------------------------------ the validator
\* The check 1 reader returning an empty dict when PyPDF2 raises.
extract_metadata_pypdf2_silent(f) ==
  IF ~f.rawOK \/ ~f.pyOK
    THEN {}
    ELSE f.docinfo \cup (IF f.xmp THEN {"XMP"} ELSE {})

\* Check 1 reader: the metadata dict, as its set of keys.
extract_metadata_pypdf2(f) ==
  IF ~f.rawOK \/ ~f.pyOK
    THEN {"error"}
    ELSE f.docinfo \cup (IF f.xmp THEN {"XMP"} ELSE {})

\* Check 2 reader.
extract_metadata_pikepdf(f) ==
  IF ~f.pikeOK
    THEN {"error"}
    ELSE f.docinfo
           \cup (IF f.xmp THEN {"XMP"} ELSE {})
           \cup (IF "/Metadata" \in f.pageKeys THEN {"Page_0_Metadata"} ELSE {})

\* Check 3: the found_patterns list.
binary_pattern_search(f) ==
  IF ~f.rawOK
    THEN << "Binary search error" >>
    ELSE SelectSeq(binary_patterns, LAMBDA p : p \in RawTokens(f))

\* The loop of detect_steganography over pdf.objects, from object k on.
\* The loop with ">=" for the test against the threshold.
RECURSIVE StegoLoopAtThreshold(_, _, _)
StegoLoopAtThreshold(objs, k, results) ==
  IF k > Len(objs) THEN results
  ELSE
    LET obj == objs[k] IN
    IF obj.readable /\ obj.size > MinDataLen
         /\ obj.entropy >= steganography_threshold
      THEN StegoLoopAtThreshold(objs, k + 1,
             [results EXCEPT
                !.high_entropy_objects =
                   Append(@, [object_id |-> k, entropy |-> obj.entropy,
                              data_size |-> obj.size]),
                !.steganography_detected = TRUE])
      ELSE StegoLoopAtThreshold(objs, k + 1, results)

RECURSIVE StegoLoop(_, _, _)
StegoLoop(objs, k, results) ==
  IF k > Len(objs) THEN results
  ELSE
    LET obj == objs[k] IN
    IF obj.readable /\ obj.size > MinDataLen
         /\ obj.entropy > steganography_threshold
      THEN StegoLoop(objs, k + 1,
             [results EXCEPT
                !.high_entropy_objects =
                   Append(@, [object_id |-> k, entropy |-> obj.entropy,
                              data_size |-> obj.size]),
                !.steganography_detected = TRUE])
      ELSE StegoLoop(objs, k + 1, results)

\* Check 4.
detect_steganography(f) ==
  LET results == [ suspicious_streams |-> << >>,
                   high_entropy_objects |-> << >>,
                   unusual_patterns |-> << >>,
                   steganography_detected |-> FALSE,
                   error |-> FALSE ]
  IN IF ~f.pikeOK
       THEN [results EXCEPT !.error = TRUE]
       ELSE StegoLoop(f.objs, 1, results)

\* Check 5.
detect_advanced_metadata(f) ==
  LET results == [ page_metadata |-> << >>,
                   annotation_metadata |-> << >>,
                   form_metadata |-> << >>,
                   bookmark_metadata |-> << >>,
                   thumbnail_metadata |-> << >>,
                   color_profile_metadata |-> << >>,
                   font_metadata |-> << >>,
                   attribution_signatures |-> << >>,
                   error |-> FALSE ]
      page_meta == f.pageKeys \cap page_metadata_keys
      flagged == IF f.hasAnnots
                   THEN SelectSeq(f.annots,
                                  LAMBDA a : a.keys \cap annot_keys # {})
                   ELSE << >>
  IN IF ~f.pikeOK
       THEN [results EXCEPT !.error = TRUE]
       ELSE [results EXCEPT
               !.page_metadata =
                  IF page_meta # {} THEN << page_meta >> ELSE << >>,
               !.annotation_metadata =
                  [n \in 1..Len(flagged) |-> flagged[n].keys \cap annot_keys],
               !.font_metadata =
                  IF f.baseFont \in validator_font_values
                    THEN << f.baseFont >> ELSE << >>,
               !.attribution_signatures =
                  IF f.adobe THEN << "Adobe" >> ELSE << >>]

\* Check 6.
validate_pdf_structure(f) ==
  LET results == [ valid_pdf |-> FALSE, readable_pages |-> 0,
                   total_pages |-> 0, corrupted_objects |-> << >>,
                   missing_fonts |-> << >>, structural_issues |-> << >> ]
      pages == [results EXCEPT
                  !.total_pages = 1,
                  !.readable_pages = IF f.badPages THEN 0 ELSE 1,
                  !.corrupted_objects =
                     IF f.badPages THEN << "Page 0" >> ELSE << >>]
  IN IF ~f.rawOK \/ ~f.pyOK
       THEN [results EXCEPT !.structural_issues = << "Validation error" >>]
     ELSE IF ~f.pikeOK
       THEN [pages EXCEPT !.structural_issues = << "Validation error" >>]
     ELSE [pages EXCEPT
             !.missing_fonts =
                IF f.baseFont = "absent" THEN << "/F1" >> ELSE << >>,
             !.structural_issues =
                IF f.trailerInfo
                  THEN << "Document info still present" >> ELSE << >>,
             !.valid_pdf = ~f.badPages]

\* The overall assessment with the structural issues of check 6 counted in.
has_metadata_with_structure(checks) ==
  \/ checks.pypdf2_metadata.found_metadata
  \/ checks.pikepdf_metadata.found_metadata
  \/ checks.binary_pattern_search.found_patterns
  \/ checks.steganography_detection.found_suspicious
  \/ checks.advanced_metadata.found_metadata
  \/ checks.structural_validation.structural_issues # << >>

\* The overall assessment, from the found flags of checks 1-5.
has_metadata(checks) ==
  \/ checks.pypdf2_metadata.found_metadata
  \/ checks.pikepdf_metadata.found_metadata
  \/ checks.binary_pattern_search.found_patterns
  \/ checks.steganography_detection.found_suspicious
  \/ checks.advanced_metadata.found_metadata

\* The assessment with the two confidence levels swapped.
forensic_assessment_swapped(detected) ==
  [ metadata_detected |-> detected,
    scrubbing_successful |-> ~detected,
    confidence_level |-> IF detected THEN "HIGH" ELSE "LOW" ]

\* results["forensic_assessment"].
forensic_assessment(detected) ==
  [ metadata_detected |-> detected,
    scrubbing_successful |-> ~detected,
    confidence_level |-> IF ~detected THEN "HIGH" ELSE "LOW" ]

\* has_advanced_metadata with the font list left out of any().
has_advanced_metadata_no_fonts(advanced_meta) ==
  \/ advanced_meta.page_metadata # << >>
  \/ advanced_meta.annotation_metadata # << >>
  \/ advanced_meta.attribution_signatures # << >>

\* has_advanced_metadata: any() over four of the lists of check 5.
has_advanced_metadata(advanced_meta) ==
  \/ advanced_meta.page_metadata # << >>
  \/ advanced_meta.annotation_metadata # << >>
  \/ advanced_meta.font_metadata # << >>
  \/ advanced_meta.attribution_signatures # << >>

\* forensic_validation of an existing file.
forensic_validation(f) ==
  LET pypdf2_meta == extract_metadata_pypdf2(f)
      pikepdf_meta == extract_metadata_pikepdf(f)
      found_patterns == binary_pattern_search(f)
      stego_results == detect_steganography(f)
      advanced_meta == detect_advanced_metadata(f)
      checks ==
        [ pypdf2_metadata |->
            [ found_metadata |-> pypdf2_meta # {},
              metadata_items |-> Cardinality(pypdf2_meta),
              details |-> pypdf2_meta ],
          pikepdf_metadata |->
            [ found_metadata |-> pikepdf_meta # {},
              metadata_items |-> Cardinality(pikepdf_meta),
              details |-> pikepdf_meta ],
          binary_pattern_search |->
            [ found_patterns |-> Len(found_patterns) > 0,
              pattern_count |-> Len(found_patterns),
              patterns |-> found_patterns ],
          steganography_detection |->
            [ found_suspicious |-> stego_results.steganography_detected,
              high_entropy_objects |-> Len(stego_results.high_entropy_objects),
              details |-> stego_results ],
          advanced_metadata |->
            [ found_metadata |-> has_advanced_metadata(advanced_meta),
              details |-> advanced_meta ],
          structural_validation |-> validate_pdf_structure(f) ]
  IN [ kind |-> "report",
       metadata_checks |-> checks,
       filesystem_metadata |-> [ modification_time |-> f.mtime ],
       forensic_assessment |-> forensic_assessment(has_metadata(checks)) ]

\* ------------------------------------------------- documents under validation
\* A document with nothing for any check to find.
CleanDoc ==
  [ kind |-> "file", rawOK |-> TRUE, pyOK |-> TRUE, pikeOK |-> TRUE,
    docinfo |-> {}, trailerInfo |-> FALSE, xmp |-> FALSE, rootKeys |-> {},
    pageKeys |-> {}, hasAnnots |-> FALSE, annots |-> << >>,
    baseFont |-> "nofont", streamTokens |-> {}, adobe |-> FALSE,
    objs |-> << >>, badPages |-> FALSE, mtime |-> 1 ]

\* Which of the three readers (raw open, PyPDF2, pikepdf) accept the file.
Readers ==
  { << TRUE, TRUE, TRUE >>, << TRUE, FALSE, TRUE >>, << TRUE, TRUE, FALSE >>,
    << FALSE, FALSE, FALSE >> }

\* Objects around the two thresholds of detect_steganography.
ObjKinds ==
  { [ readable |-> TRUE, size |-> MinDataLen + 1,
      entropy |-> steganography_threshold + 1 ],
    [ readable |-> TRUE, size |-> MinDataLen + 1,
      entropy |-> steganography_threshold ],
    [ readable |-> TRUE, size |-> MinDataLen,
      entropy |-> steganography_threshold + 5 ] }

AnnotKinds ==
  { [ Subtype |-> "/Text", keys |-> {"/T"} ],
    [ Subtype |-> "/Text", keys |-> {} ] }

\* The documents handed to forensic_validation on its own.
ValidatorDocs ==
  { [ CleanDoc EXCEPT
        !.rawOK = r[1], !.pyOK = r[2], !.pikeOK = r[3],
        !.docinfo = di, !.trailerInfo = (di # {}) \/ ti, !.xmp = x,
        !.pageKeys = pk, !.hasAnnots = Len(an) > 0, !.annots = an,
        !.baseFont = bf, !.streamTokens = st, !.adobe = ad, !.objs = ob,
        !.badPages = bp ] :
      r \in Readers, di \in {{}, {"/Producer", "/Author"}}, ti \in BOOLEAN,
      x \in BOOLEAN, pk \in {{}, {"/Metadata"}, {"/PieceInfo"}},
      an \in SeqsUpTo(AnnotKinds, MaxAnnots),
      bf \in {"nofont", "absent", "/Helvetica"}, st \in {{}, {"dc:"}},
      ad \in BOOLEAN,
      ob \in SeqsUpTo(ObjKinds, MaxObjects), bp \in BOOLEAN }

\* ------------------------------------------------------- the scrub strategies
\* What a document written by pikepdf or PyPDF2 reads back as: the three
\* readers accept it and it carries the time of the write.
Saved(d) ==
  [ d EXCEPT !.rawOK = TRUE, !.pyOK = TRUE, !.pikeOK = TRUE, !.mtime = 2 ]

\* A file left behind by a write that failed part-way.
PartialFile ==
  [ CleanDoc EXCEPT !.pyOK = FALSE, !.pikeOK = FALSE, !.mtime = 2 ]

\* The document scrub_method_reconstruct saves: the pages in a new, empty
\* document, /Metadata removed from each page.
scrub_method_reconstruct(d) ==
  Saved([ d EXCEPT !.docinfo = {}, !.trailerInfo = FALSE, !.xmp = FALSE,
                   !.rootKeys = {}, !.pageKeys = @ \ {"/Metadata"} ])

\* The document scrub_method_pikepdf saves: docinfo keys, XMP, page /Metadata,
\* the root keys /Info /Metadata /PieceInfo /Perms and the trailer /Info
\* removed in place.
scrub_method_pikepdf(d) ==
  Saved([ d EXCEPT !.docinfo = {}, !.trailerInfo = FALSE, !.xmp = FALSE,
                   !.rootKeys = @ \ {"/Info", "/Metadata", "/PieceInfo", "/Perms"},
                   !.pageKeys = @ \ {"/Metadata"} ])

\* The document scrub_method_pypdf2 saves: the pages in a fresh writer.  The
\* writer's own info dictionary is the library's: producer says whether it
\* emits a /Producer entry.
scrub_method_pypdf2(d, producer) ==
  Saved([ d EXCEPT !.docinfo = IF producer THEN {"/Producer"} ELSE {},
                   !.trailerInfo = producer, !.xmp = FALSE, !.rootKeys = {} ])

\* Whether the strategy can open its input.
MethodCanOpen(m, d) ==
  IF m = 3 THEN d.rawOK /\ d.pyOK ELSE d.pikeOK

\* The handles strategy m has not released when it returns.  "with
\* pikepdf.open(...) as pdf" and "with open(...) as f" release theirs on
\* every way out of the block.  scrub_method_reconstruct binds the document
\* of pikepdf.new() to a local name and never closes it: it is freed when
\* the runtime collects it, at the return (collected) or later.
UnreleasedHandles(m, d, collected) ==
  IF m = 1 /\ d.pikeOK /\ ~collected THEN {"new_pdf"} ELSE {}

\* The methods list of scrub_pdf, in order.
methods == << "pikepdf_advanced", "pikepdf_standard", "pypdf2" >>

MethodOutput(m, d, producer) ==
  CASE m = 1 -> scrub_method_reconstruct(d)
    [] m = 2 -> scrub_method_pikepdf(d)
    [] OTHER -> scrub_method_pypdf2(d, producer)

\* ---------------------------------------------------------------- the sanitizer
dangerous_objects ==
  { "/JavaScript", "/JS", "/EmbeddedFiles", "/Multimedia", "/3D", "/RichMedia",
    "/FileAttachment", "/Sound", "/Movie", "/Screen", "/Widget", "/Popup" }

safe_types ==
  { "/Text", "/FreeText", "/Line", "/Square", "/Circle", "/Polygon",
    "/PolyLine", "/Highlight", "/Underline", "/Squiggly", "/StrikeOut",
    "/Stamp", "/Ink" }

annot_metadata_keys ==
  { "/T", "/Contents", "/RC", "/CreationDate", "/M", "/NM", "/Subj" }

\* /BaseFont values whose lower-cased text contains one of the sanitizer's
\* attribution_patterns (the validator's terms plus symbol and courier).
sanitizer_font_values == validator_font_values \cup { "/Symbol", "/Courier" }

\* _sanitize_annotations assigning the list it has built even when empty.
sanitize_annotations_assign_empty(d) ==
  LET kept == SelectSeq(d.annots, LAMBDA a : a.Subtype \in safe_types)
  IN IF ~d.hasAnnots THEN d
     ELSE [ d EXCEPT !.annots =
              [ n \in 1..Len(kept) |->
                  [ kept[n] EXCEPT !.keys = @ \ annot_metadata_keys ] ] ]

\* _sanitize_annotations on the page: the kept annotations, stripped.
sanitize_annotations(d) ==
  LET kept == SelectSeq(d.annots, LAMBDA a : a.Subtype \in safe_types)
      annotations_to_keep ==
        [ n \in 1..Len(kept) |->
            [ kept[n] EXCEPT !.keys = @ \ annot_metadata_keys ] ]
  IN IF ~d.hasAnnots THEN d
     ELSE IF annotations_to_keep # << >>
       THEN [ d EXCEPT !.annots = annotations_to_keep ]
       ELSE [ d EXCEPT !.hasAnnots = FALSE, !.annots = << >> ]

\* _sanitize_fonts on the page's font: an attributed /BaseFont becomes /F1.
sanitize_fonts(d) ==
  IF d.baseFont \in sanitizer_font_values
    THEN [ d EXCEPT !.baseFont = "/F1" ]
    ELSE d

\* _replace_binary_signatures: "Adobe" and "adobe" overwritten with spaces,
\* unless the read or the write fails (io = FALSE), which is swallowed.
replace_binary_signatures(d, io) ==
  IF io THEN [ d EXCEPT !.adobe = FALSE ] ELSE d

\* The sanitizer with "elif" for the test of /Outlines: a document with a
\* form keeps its outline.
sanitize_embedded_objects_elif(d, io) ==
  LET cleaned == sanitize_fonts(sanitize_annotations(d))
  IN replace_binary_signatures(
       Saved([ cleaned EXCEPT
                 !.rootKeys =
                   @ \ (dangerous_objects
                          \cup (IF "/AcroForm" \in @ THEN {"/AcroForm"}
                                                     ELSE {"/Outlines"})),
                 !.docinfo = {}, !.trailerInfo = FALSE ]),
       io)

\* The document sanitize_embedded_objects leaves at its output path.
sanitize_embedded_objects(d, io) ==
  LET cleaned == sanitize_fonts(sanitize_annotations(d))
  IN replace_binary_signatures(
       Saved([ cleaned EXCEPT
                 !.rootKeys = @ \ (dangerous_objects \cup {"/AcroForm", "/Outlines"}),
                 !.docinfo = {}, !.trailerInfo = FALSE ]),
       io)

\* Where sanitize_embedded_objects can raise: nowhere, in pikepdf.open, in an
\* access to a key of the root, to a field of an annotation or to a field of
\* a font, and in pdf.save.
SanitizerFaults == { "none", "open", "root", "annot", "font", "save" }

\* The faults that are a failed access to one key or field.
FieldFaults == { "root", "annot", "font" }

\* The faults caught where they occur: the accesses to a font's field are
\* inside "try: ... except Exception: pass" (lines 432-468, 492-513); the
\* loops over the root and over the annotations have no handler of their own.
SwallowedFaults == { "font" }

\* The places where the call can raise on document d: an access raises only
\* where the code makes one, on a key or field the document has.
PossibleFaults(d) ==
  IF ~d.pikeOK THEN { "open" }
  ELSE { "none", "open", "save" }
         \cup (IF d.rootKeys \cap dangerous_objects # {} THEN {"root"} ELSE {})
         \cup (IF d.hasAnnots /\ d.annots # << >> THEN {"annot"} ELSE {})
         \cup (IF d.baseFont \notin {"nofont", "absent"} THEN {"font"} ELSE {})

\* What sanitize_embedded_objects returns: False from its "except Exception"
\* for a fault nothing caught before.
SanitizerReturns(fault) == fault \in {"none"} \cup SwallowedFaults

\* The file at the sanitizer's output path when it returns: the sanitized
\* document, with the font as it was if the access to it raised; nothing if
\* the call raised before pdf.save; nothing or a partly written file if
\* pdf.save raised.
SanitizerOutput(d, io, fault, partial) ==
  CASE fault = "none" -> sanitize_embedded_objects(d, io)
    [] fault \in SwallowedFaults ->
         [ sanitize_embedded_objects(d, io) EXCEPT !.baseFont = d.baseFont ]
    [] fault = "save" /\ partial -> PartialFile
    [] OTHER -> NoFile

\* ------------------------------------------------------------------- bytes
\* A byte string is a sequence of byte values; positions in the operators
\* below are Python's, counted from 0.
Blank == 32        \* b" "
OpenParen == 40    \* b"("
CloseParen == 41   \* b")"
Slash == 47        \* b"/"
Greater == 62      \* b">"

\* bytes.lower(): the ASCII capitals become small letters.
lower(b) ==
  [ i \in 1..Len(b) |-> IF b[i] >= 65 /\ b[i] <= 90 THEN b[i] + 32 ELSE b[i] ]

\* b[i:j].
Slice(b, i, j) == SubSeq(b, i + 1, IF j > Len(b) THEN Len(b) ELSE j)

\* b[i:j] = v.
SliceAssign(b, i, j, v) == SubSeq(b, 1, i) \o v \o SubSeq(b, j + 1, Len(b))

MatchAt(b, sub, pos) ==
  /\ pos + Len(sub) <= Len(b)
  /\ \A k \in 1..Len(sub) : b[pos + k] = sub[k]

\* b.find(sub, start): the lowest position >= start where sub occurs, or -1.
find(b, sub, start) ==
  LET hits == { pos \in start..(Len(b) - Len(sub)) : MatchAt(b, sub, pos) }
  IN  IF hits = {} THEN -1
      ELSE CHOOSE pos \in hits : \A q \in hits : pos <= q

\* "sub in b".
Contains(b, sub) == find(b, sub, 0) # -1

\* b.replace(old, new, 1): the first occurrence only.
replace_first(b, old, new) ==
  LET pos == find(b, old, 0)
  IN  IF pos = -1 THEN b
      ELSE Slice(b, 0, pos) \o new \o Slice(b, pos + Len(old), Len(b))

\* b.replace(old, new): the occurrences of old, found left to right without
\* overlap, each replaced by new.
RECURSIVE replace(_, _, _)
replace(b, old, new) ==
  LET pos == find(b, old, 0)
  IN  IF pos = -1 THEN b
      ELSE Slice(b, 0, pos) \o new
           \o replace(Slice(b, pos + Len(old), Len(b)), old, new)

\* A replacement one byte short of the token it stands for.
ReplacementShort(pattern) == [ i \in 1..(Len(pattern) - 1) |-> Blank ]

\* A replacement of NUL bytes.
ReplacementNul(pattern) == [ i \in 1..Len(pattern) |-> 0 ]

\* replacement = b" " * len(pattern).
Replacement(pattern) == [ i \in 1..Len(pattern) |-> Blank ]

\* The list cut down to its first vendor.
attribution_patterns_first_vendor ==
  << << 65, 100, 111, 98, 101 >>,  \* b"Adobe"
     << 65, 68, 79, 66, 69 >>,     \* b"ADOBE"
     << 97, 100, 111, 98, 101 >> >>  \* b"adobe"

\* The vendor tokens, in the order of the list.
attribution_patterns ==
  << << 65, 100, 111, 98, 101 >>,  \* b"Adobe"
     << 65, 68, 79, 66, 69 >>,  \* b"ADOBE"
     << 97, 100, 111, 98, 101 >>,  \* b"adobe"
     << 77, 105, 99, 114, 111, 115, 111, 102, 116 >>,  \* b"Microsoft"
     << 77, 73, 67, 82, 79, 83, 79, 70, 84 >>,  \* b"MICROSOFT"
     << 109, 105, 99, 114, 111, 115, 111, 102, 116 >>,  \* b"microsoft"
     << 76, 105, 98, 114, 101, 79, 102, 102, 105, 99, 101 >>,  \* b"LibreOffice"
     << 76, 73, 66, 82, 69, 79, 70, 70, 73, 67, 69 >>,  \* b"LIBREOFFICE"
     << 108, 105, 98, 114, 101, 111, 102, 102, 105, 99, 101 >>,  \* b"libreoffice"
     << 79, 112, 101, 110, 79, 102, 102, 105, 99, 101 >>,  \* b"OpenOffice"
     << 79, 80, 69, 78, 79, 70, 70, 73, 67, 69 >>,  \* b"OPENOFFICE"
     << 111, 112, 101, 110, 111, 102, 102, 105, 99, 101 >>,  \* b"openoffice"
     << 87, 111, 114, 100 >>,  \* b"Word"
     << 87, 79, 82, 68 >>,  \* b"WORD"
     << 119, 111, 114, 100 >>,  \* b"word"
     << 65, 99, 114, 111, 98, 97, 116 >>,  \* b"Acrobat"
     << 65, 67, 82, 79, 66, 65, 84 >>,  \* b"ACROBAT"
     << 97, 99, 114, 111, 98, 97, 116 >>,  \* b"acrobat"
     << 87, 114, 105, 116, 101, 114 >>,  \* b"Writer"
     << 87, 82, 73, 84, 69, 82 >>,  \* b"WRITER"
     << 119, 114, 105, 116, 101, 114 >>,  \* b"writer"
     << 80, 97, 103, 101, 115 >>,  \* b"Pages"
     << 80, 65, 71, 69, 83 >>,  \* b"PAGES"
     << 112, 97, 103, 101, 115 >>,  \* b"pages"
     << 76, 97, 84, 101, 88 >>,  \* b"LaTeX"
     << 76, 65, 84, 69, 88 >>,  \* b"LATEX"
     << 108, 97, 116, 101, 120 >>,  \* b"latex"
     << 80, 68, 70, 67, 114, 101, 97, 116, 111, 114 >>,  \* b"PDFCreator"
     << 80, 68, 70, 67, 82, 69, 65, 84, 79, 82 >>,  \* b"PDFCREATOR"
     << 112, 100, 102, 99, 114, 101, 97, 116, 111, 114 >>,  \* b"pdfcreator"
     << 80, 68, 70, 77, 97, 107, 101, 114 >>,  \* b"PDFMaker"
     << 80, 68, 70, 77, 65, 75, 69, 82 >>,  \* b"PDFMAKER"
     << 112, 100, 102, 109, 97, 107, 101, 114 >>,  \* b"pdfmaker"
     << 68, 105, 115, 116, 105, 108, 108, 101, 114 >>,  \* b"Distiller"
     << 68, 73, 83, 84, 73, 76, 76, 69, 82 >>,  \* b"DISTILLER"
     << 100, 105, 115, 116, 105, 108, 108, 101, 114 >>,  \* b"distiller"
     << 80, 111, 119, 101, 114, 80, 111, 105, 110, 116 >>,  \* b"PowerPoint"
     << 80, 79, 87, 69, 82, 80, 79, 73, 78, 84 >>,  \* b"POWERPOINT"
     << 112, 111, 119, 101, 114, 112, 111, 105, 110, 116 >>,  \* b"powerpoint"
     << 69, 120, 99, 101, 108 >>,  \* b"Excel"
     << 69, 88, 67, 69, 76 >>,  \* b"EXCEL"
     << 101, 120, 99, 101, 108 >>,  \* b"excel"
     << 75, 101, 121, 110, 111, 116, 101 >>,  \* b"Keynote"
     << 75, 69, 89, 78, 79, 84, 69 >>,  \* b"KEYNOTE"
     << 107, 101, 121, 110, 111, 116, 101 >> >>  \* b"keynote"

\* The metadata keys whose values the scoped scan looks into.
metadata_strings ==
  << << 47, 80, 114, 111, 100, 117, 99, 101, 114 >>,  \* b"/Producer"
     << 47, 67, 114, 101, 97, 116, 111, 114 >>,  \* b"/Creator"
     << 47, 65, 117, 116, 104, 111, 114 >>,  \* b"/Author"
     << 47, 84, 105, 116, 108, 101 >>,  \* b"/Title"
     << 47, 83, 117, 98, 106, 101, 99, 116 >>,  \* b"/Subject"
     << 47, 75, 101, 121, 119, 111, 114, 100, 115 >>,  \* b"/Keywords"
     << 47, 65, 112, 112, 108, 105, 99, 97, 116, 105, 111, 110 >>,  \* b"/Application"
     << 47, 67, 114, 101, 97, 116, 105, 111, 110, 68, 97, 116, 101 >>,  \* b"/CreationDate"
     << 47, 77, 111, 100, 68, 97, 116, 101 >> >>  \* b"/ModDate"

\* The "replacements" dict of _replace_binary_signatures.
replacements ==
  << << << 65, 100, 111, 98, 101 >>, << 32, 32, 32, 32, 32 >> >>,  \* b"Adobe"
     << << 97, 100, 111, 98, 101 >>, << 32, 32, 32, 32, 32 >> >> >>  \* b"adobe"

\* The loop of _replace_binary_signatures over replacements, from entry k on.
RECURSIVE ReplaceSignatures(_, _)
ReplaceSignatures(content, k) ==
  IF k > Len(replacements) THEN content
  ELSE IF Contains(content, replacements[k][1])
    THEN ReplaceSignatures(
           replace(content, replacements[k][1], replacements[k][2]), k + 1)
    ELSE ReplaceSignatures(content, k + 1)

\* The first loop of sanitize_binary_signatures, from pattern k on: every
\* occurrence of a token, anywhere, becomes blanks.
RECURSIVE UnscopedLoop(_, _, _)
UnscopedLoop(content, changes_made, k) ==
  IF k > Len(attribution_patterns)
    THEN [ content |-> content, changes_made |-> changes_made ]
  ELSE IF Contains(content, attribution_patterns[k])
    THEN UnscopedLoop(replace(content, attribution_patterns[k],
                              Replacement(attribution_patterns[k])),
                      TRUE, k + 1)
    ELSE UnscopedLoop(content, changes_made, k + 1)

\* The scan for the end of a value that ignores parentheses: it stops at the
\* first "/" or ">>".
RECURSIVE ValueScanNoStrings(_, _, _, _)
ValueScanNoStrings(content, value_end, paren_count, in_string) ==
  IF value_end >= Len(content)
    THEN [ value_end |-> value_end, closed |-> FALSE ]
  ELSE IF \/ content[value_end + 1] = Slash
          \/ Slice(content, value_end, value_end + 2) = << Greater, Greater >>
    THEN [ value_end |-> value_end, closed |-> TRUE ]
  ELSE ValueScanNoStrings(content, value_end + 1, paren_count, in_string)

\* The inner while loop: from value_end on, with the loop's paren_count and
\* in_string, the position where the value ends; closed tells whether a break
\* ended the loop (or the end of the buffer did).
RECURSIVE ValueScan(_, _, _, _)
ValueScan(content, value_end, paren_count, in_string) ==
  IF value_end >= Len(content)
    THEN [ value_end |-> value_end, closed |-> FALSE ]
  ELSE LET char == content[value_end + 1]
       IN  IF char = OpenParen
             THEN ValueScan(content, value_end + 1, paren_count + 1, TRUE)
           ELSE IF char = CloseParen
             THEN IF paren_count - 1 = 0
                    THEN [ value_end |-> value_end + 1, closed |-> TRUE ]
                    ELSE ValueScan(content, value_end + 1, paren_count - 1,
                                   in_string)
           ELSE IF /\ ~in_string
                   /\ \/ char = Slash
                      \/ Slice(content, value_end, value_end + 2)
                           = << Greater, Greater >>
             THEN [ value_end |-> value_end, closed |-> TRUE ]
           ELSE ValueScan(content, value_end + 1, paren_count, in_string)

\* "for attr_pattern in attribution_patterns" on one value, from pattern k on.
RECURSIVE ValueLoop(_, _, _, _, _, _)
ValueLoop(content, value_start, value_end, value_content, changes_made, k) ==
  IF k > Len(attribution_patterns)
    THEN [ content |-> content, changes_made |-> changes_made ]
  ELSE IF Contains(lower(value_content), lower(attribution_patterns[k]))
    THEN LET replaced == replace(value_content, attribution_patterns[k],
                                 Replacement(attribution_patterns[k]))
         IN  ValueLoop(SliceAssign(content, value_start, value_end, replaced),
                       value_start, value_end, replaced, TRUE, k + 1)
    ELSE ValueLoop(content, value_start, value_end, value_content,
                   changes_made, k + 1)

\* The key and position the scoped loops come to next, from key k with its
\* cursor at start: content.find(pattern, start), and the next key from 0
\* once it returns -1.  key is 0 when no key is left.
RECURSIVE NextOccurrence(_, _, _)
NextOccurrence(content, k, start) ==
  IF k > Len(metadata_strings) THEN [ key |-> 0, pos |-> -1, start |-> start ]
  ELSE LET pos == find(content, metadata_strings[k], start)
       IN  IF pos = -1 THEN NextOccurrence(content, k + 1, 0)
           ELSE [ key |-> k, pos |-> pos, start |-> start ]

\* The cursor moved one byte past the start of the key it has just found.
NextStartPastKeyStart(pos, value_end) == pos + 1

\* The cursor left on the key it has just found.
NextStartAtKey(pos, value_end) == pos

\* "start = value_end".
NextStart(pos, value_end) == value_end

\* b"/Producer (Adobe Acrobat 9.0)/Title (Report)"
SampleBytes ==
  << 47, 80, 114, 111, 100, 117, 99, 101, 114, 32, 40, 65, 100, 111, 98,
     101, 32, 65, 99, 114, 111, 98, 97, 116, 32, 57, 46, 48, 41, 47, 84,
     105, 116, 108, 101, 32, 40, 82, 101, 112, 111, 114, 116, 41 >>

\* b"/Title )(x)/Author (y)": a ")" that closes nothing, then a string.
UnbalancedBytes ==
  << 47, 84, 105, 116, 108, 101, 32, 41, 40, 120, 41, 47, 65, 117, 116,
     104, 111, 114, 32, 40, 121, 41 >>

\* b"/Title (wOrd)": a vendor name in a letter-case the list does not have.
MixedCaseBytes ==
  << 47, 84, 105, 116, 108, 101, 32, 40, 119, 79, 114, 100, 41 >>

\* b"adobexcelatex Adobe": tokens of the list that share a byte.
OverlapBytes ==
  << 97, 100, 111, 98, 101, 120, 99, 101, 108, 97, 116, 101, 120, 32, 65,
     100, 111, 98, 101 >>

\* The same bytes with "Adobe" and "Acrobat" blanked.
SampleExpected ==
  << 47, 80, 114, 111, 100, 117, 99, 101, 114, 32, 40, 32, 32, 32, 32, 32,
     32, 32, 32, 32, 32, 32, 32, 32, 32, 57, 46, 48, 41, 47, 84, 105, 116,
     108, 101, 32, 40, 82, 101, 112, 111, 114, 116, 41 >>

\* ----------------------------------------------------------------- entropy
\* Entropy is kept in thousandths of a bit.  math.log2 is computed in fixed
\* point: the whole part by doubling, ten binary digits of the fraction by
\* squaring a mantissa that carries fourteen fractional bits.
RECURSIVE Log2Whole(_, _)
Log2Whole(num, den) ==
  IF num >= 2 * den THEN 1 + Log2Whole(num, 2 * den) ELSE 0

RECURSIVE Pow2(_)
Pow2(n) == IF n = 0 THEN 1 ELSE 2 * Pow2(n - 1)

RECURSIVE Log2Fraction(_, _)
Log2Fraction(x, digit) ==
  IF digit > 10 THEN 0
  ELSE LET sq == (x * x) \div 16384
       IN  IF sq >= 2 * 16384
             THEN Pow2(10 - digit) + Log2Fraction(sq \div 2, digit + 1)
             ELSE Log2Fraction(sq, digit + 1)

\* 1000 * math.log2(num / den) for num >= den >= 1, rounded towards zero.
Log2Milli(num, den) ==
  LET whole == Log2Whole(num, den)
      mantissa == (num * 16384) \div (den * Pow2(whole))
  IN  ((whole * 1024 + Log2Fraction(mantissa, 1)) * 1000) \div 1024

\* byte_counts[byte]: how often the value occurs in data.
ByteCount(data, byte) == Cardinality({ i \in 1..Len(data) : data[i] = byte })

\* "for count in byte_counts: if count > 0: ..." over the byte values lo..hi,
\* the range halved at each step: the sum of count * log2(len(data) / count),
\* each term taken with sign.
RECURSIVE SumCounts(_, _, _, _)
SumCounts(data, lo, hi, sign) ==
  IF lo = hi
    THEN IF ByteCount(data, lo) > 0
           THEN sign * ByteCount(data, lo)
                * Log2Milli(Len(data), ByteCount(data, lo))
           ELSE 0
    ELSE LET mid == (lo + hi) \div 2
         IN  SumCounts(data, lo, mid, sign) + SumCounts(data, mid + 1, hi, sign)

\* The sum accumulated with the sign of its terms turned around.
calculate_entropy_added(data) ==
  IF Len(data) = 0 THEN 0
  ELSE SumCounts(data, 0, 255, -1) \div Len(data)

\* calculate_entropy: 0.0 for no data, and otherwise the sum over the byte
\* values that occur of -(p * log2(p)) with p = count / len(data), which is
\* count * log2(len(data) / count) / len(data).
calculate_entropy(data) ==
  IF Len(data) = 0 THEN 0
  ELSE SumCounts(data, 0, 255, 1) \div Len(data)

\* ------------------------------------------------------------------ the state
\* Paths: the input, the output and the names tempfile.mktemp hands out, each
\* new (two per method).
TempNames == << "t1", "t2", "t3", "t4", "t5", "t6" >>

Range(q) == { q[n] : n \in 1..Len(q) }

Paths == {"in", "out"} \cup Range(TempNames)

VARIABLES
  fs,                   \* path -> file or NoFile
  fs0,                  \* the file system when scrub_pdf was called
  pc,                   \* where scrub_pdf is
  method,               \* index into methods of the current loop iteration
  temp_files,           \* the temp_files list
  temp_file,            \* the strategy's output path
  temp_file2,           \* the sanitizer's output path
  original_validation,  \* report of the input
  validation,           \* report of the last sanitized candidate
  final_validation,     \* report of the output path
  result,               \* what scrub_pdf returned
  calls,                \* the operations scrub_pdf has invoked, in order
  accepted,             \* the method whose candidate was copied, 0 if none
  raised,               \* where this iteration's sanitize_embedded_objects raised
  handles,              \* the document handles not yet released
  vdoc,                 \* validate-only: the file
  vreport,              \* validate-only: its report
  exit_codes,           \* main: the codes handed to sys.exit, in order
  content,              \* byte pass: the buffer
  original,             \* byte pass: the bytes read from the file
  bpc,                  \* byte pass: where it is
  key_idx,              \* byte pass: index into metadata_strings
  start,                \* byte pass: the search cursor of the current key
  changes_made,         \* byte pass: the flag it returns
  last,                 \* byte pass: the value span of the last iteration
  data,                 \* calculate_entropy: its argument
  entropy,              \* calculate_entropy: << >> or << its result >>
  tmp,                  \* concurrent runs: temp name -> the run whose file it is
  runs                  \* concurrent runs: run -> where it is and its names

svars ==
  << fs, fs0, pc, method, temp_files, temp_file, temp_file2,
     original_validation, validation, final_validation, result, calls,
     accepted, raised, handles >>

vvars == << vdoc, vreport >>

bvars == << content, original, bpc, key_idx, start, changes_made, last >>

evars == << data, entropy >>

xvars == << exit_codes, bvars, evars >>

cvars == << tmp, runs >>

vars == << svars, vvars, xvars, cvars >>

\* The span record before any iteration.
NoSpan ==
  [ key |-> 0, start |-> 0, pos |-> 0, value_start |-> 0, value_end |-> 0,
    closed |-> FALSE ]

\* The scrub_pdf runs going on at once, as separate processes.
Procs == { 1, 2 }

\* The names tempfile.mktemp can return in the shared temporary directory.
TempPool == 1..MaxNames

\* A run before its loop.
RunAtStart ==
  [ pc |-> "method", method |-> 1, temp_files |-> {}, temp_file |-> 0,
    temp_file2 |-> 0, foreign |-> FALSE ]

\* No concurrent runs under way.
RunsIdle ==
  /\ tmp = [ n \in TempPool |-> 0 ]
  /\ runs = [ p \in Procs |-> [ RunAtStart EXCEPT !.pc = "idle" ] ]

\* No byte pass under way.
BytesIdle ==
  /\ content = << >>
  /\ original = << >>
  /\ bpc = "idle"
  /\ key_idx = 1
  /\ start = 0
  /\ changes_made = FALSE
  /\ last = NoSpan

\* No entropy computation under way.
EntropyIdle == data = << >> /\ entropy = << >>

\* The documents scrub_pdf is called on.
InputDocs ==
  { [ CleanDoc EXCEPT
        !.rawOK = r[1], !.pyOK = r[2], !.pikeOK = r[3],
        !.docinfo = di, !.trailerInfo = di # {}, !.rootKeys = rk,
        !.pageKeys = pk, !.baseFont = bf, !.adobe = ad, !.objs = ob ] :
      r \in Readers, di \in {{}, {"/Producer", "/Author"}},
      rk \in {{}, {"/Outlines"}}, pk \in {{}, {"/Metadata"}, {"/PieceInfo"}},
      bf \in {"nofont", "/Helvetica"}, ad \in BOOLEAN,
      ob \in SeqsUpTo({ [ readable |-> TRUE, size |-> MinDataLen + 1,
                          entropy |-> steganography_threshold + 1 ] },
                      MaxObjects) }

\* Annotations the sanitizer tells apart: a subtype outside safe_types, no
\* /Subtype at all, and a kept subtype with a key the sanitizer deletes and
\* one it leaves.
SanitizerAnnotKinds ==
  AnnotKinds \cup
    { [ Subtype |-> "/Widget", keys |-> {"/T"} ],
      [ Subtype |-> "absent", keys |-> {"/Contents"} ],
      [ Subtype |-> "/Ink", keys |-> {"/M", "/Rect"} ] }

\* Documents with what only the sanitizer removes: a page whose /Annots is
\* empty or holds annotations of kept and of dropped kinds, root keys of its
\* danger list, a form, a font.
AnnotatedDocs ==
  { [ CleanDoc EXCEPT
        !.hasAnnots = TRUE, !.annots = an,
        !.rootKeys = {"/JavaScript", "/AcroForm", "/Outlines"},
        !.baseFont = "/Courier",
        !.adobe = ad ] :
      an \in SeqsUpTo(SanitizerAnnotKinds, MaxAnnots),
      ad \in BOOLEAN }

\* A file already at the output path before the call, written by an earlier
\* run or another tool.
StaleDoc ==
  [ CleanDoc EXCEPT !.docinfo = {"/Producer"}, !.trailerInfo = TRUE ]

Failure(msg) ==
  [ kind |-> "result", success |-> FALSE, error |-> msg,
    original_analysis |-> NoReport, final_analysis |-> NoReport ]

Success(orig, final) ==
  [ kind |-> "result", success |-> TRUE, error |-> "",
    original_analysis |-> orig, final_analysis |-> final ]

\* An entry of calls: the operation, the path or method it was given and
\* whether it succeeded (for a validation: scrubbing_successful).
Call(op, arg, ok) == [ op |-> op, arg |-> arg, ok |-> ok ]

\* The check with the test of the input path left out.
InputMissingUnchecked(f) == FALSE

\* "if not os.path.exists(input_path)".
InputMissing(f) == f = NoFile

\* The loop without its break: an accepted candidate does not end it.
LoopNextNoBreak(m, brk) ==
  IF m >= Len(methods)
    THEN [ pc |-> "cleanup", method |-> m ]
    ELSE [ pc |-> "method", method |-> m + 1 ]

\* The loop given up at the first iteration that ends, whatever its outcome.
LoopNextGiveUp(m, brk) == [ pc |-> "cleanup", method |-> m ]

\* The for loop over methods: after iteration m, break (brk) or the end of the
\* list leaves the loop, anything else starts iteration m + 1.
LoopNext(m, brk) ==
  IF brk \/ m >= Len(methods)
    THEN [ pc |-> "cleanup", method |-> m ]
    ELSE [ pc |-> "method", method |-> m + 1 ]

\* The input path handed on where a temporary name is due.
mktemp_input_path == "in"

\* tempfile.mktemp: a name that is not in use.
mktemp == TempNames[Len(temp_files) + 1]

\* ------------------------------------------------------------------- scrub_pdf
Init ==
  /\ fs \in { [ p \in Paths |->
                  IF p = "in" THEN a ELSE IF p = "out" THEN b ELSE NoFile ] :
              a \in {NoFile} \cup InputDocs \cup AnnotatedDocs,
              b \in {NoFile, StaleDoc} }
  /\ fs0 = fs
  /\ pc = "start"
  /\ method = 1
  /\ temp_files = << >>
  /\ temp_file = "none"
  /\ temp_file2 = "none"
  /\ original_validation = NoReport
  /\ validation = NoReport
  /\ final_validation = NoReport
  /\ result = NoResult
  /\ calls = << >>
  /\ accepted = 0
  /\ raised = "none"
  /\ handles = {}
  /\ vdoc = fs["in"]
  /\ vreport = NoReport
  /\ exit_codes = << >>
  /\ BytesIdle
  /\ EntropyIdle
  /\ RunsIdle

\* The existence check on the input path.
ScrubStart ==
  /\ pc = "start"
  /\ IF InputMissing(fs["in"])
       THEN /\ result' = Failure("Input file does not exist")
            /\ pc' = "returned"
       ELSE /\ pc' = "analyze"
            /\ UNCHANGED result
  /\ UNCHANGED << fs, fs0, method, temp_files, temp_file, temp_file2,
                  original_validation, validation, final_validation, calls,
                  accepted, raised, handles, cvars, vvars, xvars >>

\* original_validation = self.forensic_validation(input_path); os.path.getsize
\* raises when there is no file.
AnalyzeOriginal ==
  /\ pc = "analyze"
  /\ IF fs["in"] = NoFile
       THEN /\ pc' = "raised"
            /\ calls' = Append(calls, Call("forensic_validation", "in", FALSE))
            /\ UNCHANGED original_validation
       ELSE /\ original_validation' = forensic_validation(fs["in"])
            /\ calls' = Append(calls,
                  Call("forensic_validation", "in",
                       original_validation'.forensic_assessment.scrubbing_successful))
            /\ pc' = "method"
  /\ method' = 1
  /\ temp_files' = << >>
  /\ UNCHANGED << fs, fs0, temp_file, temp_file2, validation,
                  final_validation, result, accepted, raised, handles,
                  cvars, vvars, xvars >>

\* One strategy: success = method_func(input_path, temp_file).  The strategy
\* returns True with its document saved, or False with no file or with a
\* partly written one.
RunMethod ==
  /\ pc = "method"
  /\ handles = {}
  /\ raised' = "none"
  /\ temp_file' = mktemp
  /\ temp_files' = Append(temp_files, mktemp)
  /\ \E outcome \in {"saved", "failed", "partial"}, producer \in BOOLEAN :
       /\ calls' = Append(calls,
                          Call("method", methods[method], outcome = "saved"))
       /\ ~MethodCanOpen(method, fs["in"]) => outcome = "failed"
       /\ method # 3 => producer
       /\ fs' = [ fs EXCEPT ![mktemp] =
                    CASE outcome = "saved" ->
                           MethodOutput(method, fs["in"], producer)
                      [] outcome = "partial" -> PartialFile
                      [] OTHER -> NoFile ]
       /\ IF outcome = "saved"
            THEN pc' = "sanitize" /\ UNCHANGED method
            ELSE /\ pc' = LoopNext(method, FALSE).pc
                 /\ method' = LoopNext(method, FALSE).method
  /\ \E collected \in BOOLEAN :
       handles' = handles \cup UnreleasedHandles(method, fs["in"], collected)
  /\ UNCHANGED << fs0, temp_file2, original_validation, validation,
                  final_validation, result, accepted, cvars, vvars, xvars >>

\* The collector of the Python runtime frees a document no name refers to.
\* The model lets it run no later than the next call of the loop.
CollectGarbage ==
  /\ handles # {}
  /\ handles' = {}
  /\ UNCHANGED << fs, fs0, pc, method, temp_files, temp_file, temp_file2,
                  original_validation, validation, final_validation, result,
                  calls, accepted, raised, cvars, vvars, xvars >>

\* sanitization_success = self.sanitize_embedded_objects(temp_file, temp_file2).
\* fault is the place where the call raises, if any.
Sanitize ==
  /\ pc = "sanitize"
  /\ handles = {}
  /\ temp_file2' = mktemp
  /\ temp_files' = Append(temp_files, mktemp)
  /\ \E fault \in SanitizerFaults, partial \in BOOLEAN, io \in BOOLEAN :
       /\ fault \in PossibleFaults(fs[temp_file])
       /\ partial => fault = "save"
       /\ raised' = fault
       /\ calls' = Append(calls, Call("sanitize_embedded_objects", temp_file,
                                      SanitizerReturns(fault)))
       /\ fs' = [ fs EXCEPT ![mktemp] =
                    SanitizerOutput(fs[temp_file], io, fault, partial) ]
       /\ IF SanitizerReturns(fault)
            THEN pc' = "validate" /\ UNCHANGED method
            ELSE /\ pc' = LoopNext(method, FALSE).pc
                 /\ method' = LoopNext(method, FALSE).method
  /\ UNCHANGED << fs0, temp_file, original_validation, validation,
                  final_validation, result, accepted, handles, cvars, vvars, xvars >>

\* The validation run on the strategy's output instead of the sanitizer's.
ValidateCandidateRaw ==
  /\ pc = "validate"
  /\ validation' = forensic_validation(fs[temp_file])
  /\ calls' = Append(calls,
                     Call("forensic_validation", temp_file,
                          validation'.forensic_assessment.scrubbing_successful))
  /\ IF validation'.forensic_assessment.scrubbing_successful
       THEN pc' = "copy" /\ UNCHANGED method
       ELSE /\ pc' = LoopNext(method, FALSE).pc
            /\ method' = LoopNext(method, FALSE).method
  /\ UNCHANGED << fs, fs0, temp_files, temp_file, temp_file2,
                  original_validation, final_validation, result, accepted,
                  raised, handles, cvars, vvars, xvars >>

\* validation = self.forensic_validation(temp_file2) and the test of
\* scrubbing_successful.
ValidateCandidate ==
  /\ pc = "validate"
  /\ validation' = forensic_validation(fs[temp_file2])
  /\ calls' = Append(calls,
                     Call("forensic_validation", temp_file2,
                          validation'.forensic_assessment.scrubbing_successful))
  /\ IF validation'.forensic_assessment.scrubbing_successful
       THEN pc' = "copy" /\ UNCHANGED method
       ELSE /\ pc' = LoopNext(method, FALSE).pc
            /\ method' = LoopNext(method, FALSE).method
  /\ UNCHANGED << fs, fs0, temp_files, temp_file, temp_file2,
                  original_validation, final_validation, result, accepted,
                  raised, handles, cvars, vvars, xvars >>

\* shutil.copy2(temp_file2, output_path) and break.  The copy raises when the
\* output path cannot be written (no such directory, no permission).
CopyAccepted ==
  /\ pc = "copy"
  /\ \E ok \in BOOLEAN :
       /\ calls' = Append(calls, Call("copy2", temp_file2, ok))
       /\ IF ok
         THEN /\ fs' = [ fs EXCEPT !["out"] = fs[temp_file2] ]
              /\ accepted' = method
              /\ pc' = LoopNext(method, TRUE).pc
              /\ method' = LoopNext(method, TRUE).method
         ELSE /\ pc' = "raised"
              /\ UNCHANGED << fs, accepted, method >>
  /\ UNCHANGED << fs0, temp_files, temp_file, temp_file2,
                  original_validation, validation, final_validation, result,
                  raised, handles, cvars, vvars, xvars >>

\* "for temp_file in temp_files: if os.path.exists(temp_file): os.remove".
Cleanup ==
  /\ pc = "cleanup"
  /\ fs' = [ p \in Paths |-> IF p \in Range(temp_files) THEN NoFile ELSE fs[p] ]
  /\ pc' = "finish"
  /\ UNCHANGED << fs0, method, temp_files, temp_file, temp_file2,
                  original_validation, validation, final_validation, result,
                  calls, accepted, raised, handles, cvars, vvars, xvars >>

\* The return with the report of the last candidate for final report, the
\* output path not validated again.
FinishWithCandidateReport ==
  /\ pc = "finish"
  /\ IF fs["out"] = NoFile
       THEN /\ result' = Failure("All scrubbing methods failed")
            /\ UNCHANGED final_validation
       ELSE /\ final_validation' = validation
            /\ result' = Success(original_validation, final_validation')
  /\ pc' = "returned"
  /\ UNCHANGED << fs, fs0, method, temp_files, temp_file, temp_file2,
                  original_validation, validation, calls, accepted, raised, handles,
                  cvars, vvars, xvars >>

\* The test of os.path.exists(output_path), the final validation, the return.
Finish ==
  /\ pc = "finish"
  /\ IF fs["out"] = NoFile
       THEN /\ result' = Failure("All scrubbing methods failed")
            /\ UNCHANGED << final_validation, calls >>
       ELSE /\ final_validation' = forensic_validation(fs["out"])
            /\ calls' = Append(calls,
                  Call("forensic_validation", "out",
                       final_validation'.forensic_assessment.scrubbing_successful))
            /\ result' = Success(original_validation, final_validation')
  /\ pc' = "returned"
  /\ UNCHANGED << fs, fs0, method, temp_files, temp_file, temp_file2,
                  original_validation, validation, accepted, raised, handles,
                  cvars, vvars, xvars >>

\* The exit code after a scrub that returned success, whatever its final
\* report says.
ScrubExitCodeOnSuccess(res) == IF res.success THEN 0 ELSE 1

\* main() after scrub_pdf: sys.exit(0) when the result is a success whose
\* final report has scrubbing_successful, sys.exit(1) otherwise.
ScrubExitCode(res) ==
  IF res.success
    THEN IF res.final_analysis.forensic_assessment.scrubbing_successful
           THEN 0 ELSE 1
    ELSE 1

\* main(): "if not os.path.exists(args.input)": sys.exit(1).
MainInputCheck ==
  /\ pc = "start"
  /\ fs["in"] = NoFile
  /\ exit_codes' = Append(exit_codes, 1)
  /\ pc' = "exited"
  /\ UNCHANGED << fs, fs0, method, temp_files, temp_file, temp_file2,
                  original_validation, validation, final_validation, result,
                  calls, accepted, raised, handles, cvars, vvars, bvars, evars >>

\* main() once scrub_pdf has returned.
MainExit ==
  /\ pc = "returned"
  /\ exit_codes = << >>
  /\ exit_codes' = Append(exit_codes, ScrubExitCode(result))
  /\ UNCHANGED << svars, cvars, vvars, bvars, evars >>

\* main() with --validate-only: one forensic_validation of the input file,
\* then sys.exit(1) if metadata was detected and sys.exit(0) if not.
ValidateOnly ==
  /\ pc = "start"
  /\ vdoc # NoFile
  /\ vreport = NoReport
  /\ vreport' = forensic_validation(vdoc)
  /\ exit_codes' =
       Append(exit_codes,
              IF vreport'.forensic_assessment.metadata_detected THEN 1 ELSE 0)
  /\ pc' = "exited"
  /\ UNCHANGED << fs, fs0, method, temp_files, temp_file, temp_file2,
                  original_validation, validation, final_validation, result,
                  calls, accepted, raised, handles, cvars, vdoc, bvars, evars >>

Next ==
  \/ MainInputCheck
  \/ ValidateOnly
  \/ MainExit
  \/ CollectGarbage
  \/ ScrubStart
  \/ AnalyzeOriginal
  \/ RunMethod
  \/ Sanitize
  \/ ValidateCandidate
  \/ CopyAccepted
  \/ Cleanup
  \/ Finish

Spec == Init /\ [][Next]_vars

\* --------------------------------------------------------------- validate-only
\* The validator on its own, over every document of ValidatorDocs.
InitV ==
  /\ vdoc \in ValidatorDocs
  /\ vreport = NoReport
  /\ fs = [ p \in Paths |-> NoFile ]
  /\ fs0 = fs
  /\ pc = "start"
  /\ method = 1
  /\ temp_files = << >>
  /\ temp_file = "none"
  /\ temp_file2 = "none"
  /\ original_validation = NoReport
  /\ validation = NoReport
  /\ final_validation = NoReport
  /\ result = NoResult
  /\ calls = << >>
  /\ accepted = 0
  /\ raised = "none"
  /\ handles = {}
  /\ exit_codes = << >>
  /\ BytesIdle
  /\ EntropyIdle
  /\ RunsIdle

NextV == ValidateOnly

SpecV == InitV /\ [][NextV]_vars

\* ------------------------------------------------------------ the byte passes
\* No scrub_pdf, validate-only run or exit under way.
ScrubIdle ==
  /\ fs = [ p \in Paths |-> NoFile ]
  /\ fs0 = fs
  /\ pc = "idle"
  /\ method = 1
  /\ temp_files = << >>
  /\ temp_file = "none"
  /\ temp_file2 = "none"
  /\ original_validation = NoReport
  /\ validation = NoReport
  /\ final_validation = NoReport
  /\ result = NoResult
  /\ calls = << >>
  /\ accepted = 0
  /\ raised = "none"
  /\ handles = {}
  /\ vdoc = CleanDoc
  /\ vreport = NoReport
  /\ exit_codes = << >>

\* What the buffers are made of: a metadata key, a vendor token, the
\* delimiters of the value scan and a byte that is none of them.
Chunks ==
  { << 47, 84, 105, 116, 108, 101 >>,  \* b"/Title"
    << 87, 111, 114, 100 >>,           \* b"Word"
    << OpenParen >>, << CloseParen >>, << Greater >>,
    << 120 >> }                        \* b"x"

RECURSIVE ChunkBuffers(_)
ChunkBuffers(n) ==
  IF n = 0 THEN { << >> }
  ELSE LET shorter == ChunkBuffers(n - 1)
       IN  shorter \cup { b \o c : b \in shorter, c \in Chunks }

\* The files the byte passes are run on.
InputBuffers ==
  ChunkBuffers(MaxChunks)
    \cup { SampleBytes, UnbalancedBytes, MixedCaseBytes, OverlapBytes }

InitB ==
  /\ content \in InputBuffers
  /\ original = content
  /\ bpc = "begin"
  /\ key_idx = 1
  /\ start = 0
  /\ changes_made = FALSE
  /\ last = NoSpan
  /\ ScrubIdle
  /\ RunsIdle
  /\ EntropyIdle

\* _replace_binary_signatures on the file; io is FALSE when reading or writing
\* it raises, which leaves the file as it was.
ReplaceBinarySignatures ==
  /\ bpc = "begin"
  /\ \E io \in BOOLEAN :
       /\ content' = IF io THEN ReplaceSignatures(content, 1) ELSE content
       /\ bpc' = IF io THEN "replaced" ELSE "skipped"
  /\ UNCHANGED << original, key_idx, start, changes_made, last, svars, cvars, vvars,
                  exit_codes, evars >>

\* sanitize_binary_signatures, its first loop: the tokens anywhere.
UnscopedPass ==
  /\ bpc = "begin"
  /\ LET r == UnscopedLoop(content, FALSE, 1)
     IN  /\ content' = r.content
         /\ changes_made' = r.changes_made
  /\ bpc' = "scoped"
  /\ key_idx' = 1
  /\ start' = 0
  /\ UNCHANGED << original, last, svars, cvars, vvars, exit_codes, evars >>

\* One iteration of "while True" for the key the loops have come to: the
\* value span after the key, the tokens inside it, the cursor.
ScopedStep ==
  /\ bpc = "scoped"
  /\ LET occ == NextOccurrence(content, key_idx, start)
         value_start == occ.pos + Len(metadata_strings[occ.key])
         scan == ValueScan(content, value_start, 0, FALSE)
         r == ValueLoop(content, value_start, scan.value_end,
                        Slice(content, value_start, scan.value_end),
                        changes_made, 1)
     IN  /\ occ.key # 0
         /\ content' = r.content
         /\ changes_made' = r.changes_made
         /\ key_idx' = occ.key
         /\ start' = NextStart(occ.pos, scan.value_end)
         /\ last' = [ key |-> occ.key, start |-> occ.start, pos |-> occ.pos,
                      value_start |-> value_start,
                      value_end |-> scan.value_end, closed |-> scan.closed ]
  /\ UNCHANGED << original, bpc, svars, cvars, vvars, exit_codes, evars >>

\* No key is left: the buffer is written and changes_made returned.
WriteOutput ==
  /\ bpc = "scoped"
  /\ NextOccurrence(content, key_idx, start).key = 0
  /\ bpc' = "written"
  /\ UNCHANGED << content, original, key_idx, start, changes_made, last,
                  svars, cvars, vvars, exit_codes, evars >>

NextB ==
  \/ ReplaceBinarySignatures
  \/ UnscopedPass
  \/ ScopedStep
  \/ WriteOutput

SpecB == InitB /\ [][NextB]_vars

\* ------------------------------------------------------------------- entropy
\* The byte strings whose entropy is computed: the short ones over three
\* byte values, bytes(range(256)) and one value 200 times.
EntropyInputs ==
  SeqsUpTo({0, 65, 255}, MaxData)
  \cup { [ i \in 1..256 |-> i - 1 ], [ i \in 1..200 |-> 65 ] }

InitE ==
  /\ data \in EntropyInputs
  /\ entropy = << >>
  /\ ScrubIdle
  /\ BytesIdle
  /\ RunsIdle

CalculateEntropy ==
  /\ entropy = << >>
  /\ entropy' = << calculate_entropy(data) >>
  /\ UNCHANGED << data, svars, cvars, vvars, exit_codes, bvars >>

NextE == CalculateEntropy

SpecE == InitE /\ [][NextE]_vars

\* ------------------------------------------------------------ concurrent runs
\* Two scrub_pdf calls in two processes, each with its own input and output
\* path and both with the same temporary directory.  Of a run only its use of
\* temporary names is kept: which names it picked (temp_files, as a set: the
\* cleanup does not depend on the order) and what it did to the files under
\* them.
InitC ==
  /\ tmp = [ n \in TempPool |-> 0 ]
  /\ runs = [ p \in Procs |-> RunAtStart ]
  /\ ScrubIdle
  /\ BytesIdle
  /\ EntropyIdle

\* tempfile.mktemp(suffix='.pdf'): a name no file has at the time of the
\* call.  The file is not created.
FreeNames == { n \in TempPool : tmp[n] = 0 }

\* The end of a loop iteration that did not break.
RunLoopNext(r) ==
  IF r.method = Len(methods)
    THEN [ r EXCEPT !.pc = "cleanup" ]
    ELSE [ r EXCEPT !.pc = "method", !.method = @ + 1 ]

\* The run has read or removed the file under name n: foreign says whether
\* it was another run's.
Touch(r, p, n) == [ r EXCEPT !.foreign = @ \/ tmp[n] \notin {0, p} ]

\* temp_file = tempfile.mktemp(suffix='.pdf'); temp_files.append(temp_file).
PickTempFile(p) ==
  /\ runs[p].pc = "method"
  /\ \E n \in FreeNames :
       runs' = [ runs EXCEPT ![p] =
                   [ @ EXCEPT !.pc = "strategy", !.temp_file = n,
                              !.temp_files = @ \cup {n} ] ]
  /\ UNCHANGED << tmp, svars, vvars, xvars >>

\* success = method_func(input_path, temp_file): the strategy writes the
\* file under the name, or fails and writes nothing.
RunStrategy(p) ==
  /\ runs[p].pc = "strategy"
  /\ \E success \in BOOLEAN :
       IF success
         THEN /\ tmp' = [ tmp EXCEPT ![runs[p].temp_file] = p ]
              /\ runs' = [ runs EXCEPT ![p] = [ @ EXCEPT !.pc = "sanitize" ] ]
         ELSE /\ runs' = [ runs EXCEPT ![p] = RunLoopNext(@) ]
              /\ UNCHANGED tmp
  /\ UNCHANGED << svars, vvars, xvars >>

\* temp_file2 = tempfile.mktemp(suffix='.pdf'); temp_files.append(temp_file2).
PickTempFile2(p) ==
  /\ runs[p].pc = "sanitize"
  /\ \E n \in FreeNames :
       runs' = [ runs EXCEPT ![p] =
                   [ @ EXCEPT !.pc = "sanitizing", !.temp_file2 = n,
                              !.temp_files = @ \cup {n} ] ]
  /\ UNCHANGED << tmp, svars, vvars, xvars >>

\* self.sanitize_embedded_objects(temp_file, temp_file2): reads the first
\* file and writes the second, or fails.
SanitizeCandidate(p) ==
  /\ runs[p].pc = "sanitizing"
  /\ \E success \in BOOLEAN :
       /\ tmp[runs[p].temp_file] = 0 => ~success
       /\ IF success
            THEN /\ tmp' = [ tmp EXCEPT ![runs[p].temp_file2] = p ]
                 /\ runs' = [ runs EXCEPT ![p] =
                       [ Touch(@, p, runs[p].temp_file)
                           EXCEPT !.pc = "validate" ] ]
            ELSE /\ runs' = [ runs EXCEPT ![p] =
                       RunLoopNext(Touch(@, p, runs[p].temp_file)) ]
                 /\ UNCHANGED tmp
  /\ UNCHANGED << svars, vvars, xvars >>

\* validation = self.forensic_validation(temp_file2), then the copy to the
\* output path and the break, or the next iteration.
ValidateAndCopy(p) ==
  /\ runs[p].pc = "validate"
  /\ \E scrubbing_successful \in BOOLEAN :
       /\ tmp[runs[p].temp_file2] = 0 => ~scrubbing_successful
       /\ runs' = [ runs EXCEPT ![p] =
             IF scrubbing_successful
               THEN [ Touch(@, p, runs[p].temp_file2) EXCEPT !.pc = "cleanup" ]
               ELSE RunLoopNext(Touch(@, p, runs[p].temp_file2)) ]
  /\ UNCHANGED << tmp, svars, vvars, xvars >>

\* "for temp_file in temp_files: if os.path.exists(temp_file):
\* os.remove(temp_file)".
CleanupTempFiles(p) ==
  /\ runs[p].pc = "cleanup"
  /\ tmp' = [ n \in TempPool |->
                IF n \in runs[p].temp_files THEN 0 ELSE tmp[n] ]
  /\ runs' = [ runs EXCEPT ![p] =
        [ @ EXCEPT !.pc = "done",
                   !.foreign = @ \/ \E n \in runs[p].temp_files :
                                      tmp[n] \notin {0, p} ] ]
  /\ UNCHANGED << svars, vvars, xvars >>

NextC ==
  \/ \E p \in Procs : PickTempFile(p)
  \/ \E p \in Procs : RunStrategy(p)
  \/ \E p \in Procs : PickTempFile2(p)
  \/ \E p \in Procs : SanitizeCandidate(p)
  \/ \E p \in Procs : ValidateAndCopy(p)
  \/ \E p \in Procs : CleanupTempFiles(p)

SpecC == InitC /\ [][NextC]_vars

\* ===================================================================== claims
Temps == Range(TempNames)

Terminal == pc \in {"returned", "raised"}

\* The loop iteration (index into methods) that entry p of calls belongs to.
IterationOf(p) ==
  Cardinality({ q \in 1..p : calls[q].op = "method" })

MethodInvoked(name) ==
  \E p \in DOMAIN calls : calls[p].op = "method" /\ calls[p].arg = name

\* Entry p records a candidate that validated with scrubbing_successful.
AcceptingAt(p) ==
  /\ calls[p].op = "forensic_validation"
  /\ calls[p].arg \in Temps
  /\ calls[p].ok

\* Entry p records an iteration ending without acceptance.
RejectingAt(p) ==
  /\ calls[p].arg # "in" /\ calls[p].arg # "out"
  /\ calls[p].op \in {"method", "sanitize_embedded_objects",
                      "forensic_validation"}
  /\ ~calls[p].ok

\* C1: once a sanitized candidate has validated with scrubbing_successful, no
\* strategy is invoked later in the call; if the first strategy is accepted,
\* the second and the third are never invoked.
C1_ShortCircuit ==
  /\ \A p \in DOMAIN calls :
       AcceptingAt(p) => \A q \in DOMAIN calls : q > p => calls[q].op # "method"
  /\ accepted = 1 =>
       ~MethodInvoked("pikepdf_standard") /\ ~MethodInvoked("pypdf2")

C1_Witness ==
  /\ pc = "returned" /\ result.success /\ accepted = 1
  /\ MethodInvoked("pikepdf_advanced")

\* C2: 'All scrubbing methods failed' is returned only after all three
\* strategies were invoked, and every iteration i < 3 that ends without
\* acceptance (strategy False, sanitizer False, validation not successful) is
\* followed at once by the invocation of strategy i + 1.
C2_FallbackBeforeFailure ==
  /\ (pc = "returned" /\ result.error = "All scrubbing methods failed") =>
       \A n \in DOMAIN methods : MethodInvoked(methods[n])
  /\ \A p \in DOMAIN calls :
       (RejectingAt(p) /\ IterationOf(p) < Len(methods)) =>
         IF p < Len(calls)
           THEN /\ calls[p + 1].op = "method"
                /\ calls[p + 1].arg = methods[IterationOf(p) + 1]
           ELSE pc = "method" /\ method = IterationOf(p) + 1

C2_Witness ==
  /\ pc = "returned" /\ result.error = "All scrubbing methods failed"
  /\ \E p, q, r \in DOMAIN calls :
       /\ RejectingAt(p) /\ calls[p].op = "method"
       /\ RejectingAt(q) /\ calls[q].op = "sanitize_embedded_objects"
       /\ RejectingAt(r) /\ calls[r].op = "forensic_validation"

\* C3: when a scrub_pdf call has ended, by a return or by an error raised out
\* of it, none of the intermediate files it created exists.
C3_CleanupInvariant ==
  Terminal => \A t \in Temps : fs[t] = NoFile

\* C4: a call that ran its strategies and accepted none returns
\* (False, 'All scrubbing methods failed') and no file is at the output path,
\* whatever was at the output path before the call.
C4_AllFailedOutcome ==
  (pc = "returned" /\ original_validation # NoReport /\ accepted = 0) =>
    /\ result = Failure("All scrubbing methods failed")
    /\ fs["out"] = NoFile

\* C5: the output path is written at most once, by the copy of a candidate that
\* has just validated with scrubbing_successful, and a call that got past the
\* input check returns either success with the accepted candidate at the output
\* path and both reports, or failure with no file at the output path.
C5_ValidationGatesOutput ==
  /\ Cardinality({ p \in DOMAIN calls : calls[p].op = "copy2" /\ calls[p].ok }) <= 1
  /\ \A p \in DOMAIN calls :
       calls[p].op = "copy2" =>
         p > 1 /\ AcceptingAt(p - 1) /\ calls[p - 1].arg = calls[p].arg
  /\ fs["out"] # fs0["out"] => accepted # 0
  /\ (pc = "returned" /\ original_validation # NoReport) =>
       \/ /\ result.success
          /\ accepted # 0
          /\ validation.forensic_assessment.scrubbing_successful
          /\ forensic_validation(fs["out"]) = validation
          /\ result.original_analysis = original_validation
          /\ result.final_analysis = final_validation
          /\ final_validation # NoReport
       \/ /\ ~result.success
          /\ fs["out"] = NoFile

\* C6: whenever scrub_pdf returns success, the final report has
\* metadata_detected = False and confidence_level = 'HIGH', and the original
\* report of an input with a non-empty info dictionary has
\* metadata_detected = True.
C6_EndToEndVerdict ==
  (pc = "returned" /\ result.success) =>
    /\ ~result.final_analysis.forensic_assessment.metadata_detected
    /\ result.final_analysis.forensic_assessment.confidence_level = "HIGH"
    /\ fs0["in"].docinfo # {} =>
         result.original_analysis.forensic_assessment.metadata_detected

\* The documents that differ from f only in what checks 6 and 7 read: page
\* readability, a missing /BaseFont, an empty info dictionary left in the
\* trailer, the file times.
StructuralVariants(f) ==
  { [ f EXCEPT !.badPages = bp, !.mtime = mt,
               !.trailerInfo = IF f.docinfo = {} THEN ti ELSE @,
               !.baseFont = IF @ \in {"nofont", "absent"} THEN bf ELSE @ ] :
      bp \in BOOLEAN, mt \in {1, 2}, ti \in BOOLEAN,
      bf \in {"nofont", "absent"} }

\* C7: in every report, metadata_detected is the OR of the found flags of
\* checks 1-5, and neither the structural validation (check 6) nor the
\* filesystem times (check 7) change the assessment.
C7_AggregateVerdict ==
  vreport # NoReport =>
    LET c == vreport.metadata_checks IN
    /\ vreport.forensic_assessment.metadata_detected =
         ( \/ c.pypdf2_metadata.found_metadata
           \/ c.pikepdf_metadata.found_metadata
           \/ c.binary_pattern_search.found_patterns
           \/ c.steganography_detection.found_suspicious
           \/ c.advanced_metadata.found_metadata )
    /\ \A g \in StructuralVariants(vdoc) :
         forensic_validation(g).forensic_assessment = vreport.forensic_assessment

C7_Witness ==
  /\ vreport # NoReport
  /\ vreport.metadata_checks.structural_validation.structural_issues # << >>
  /\ ~vreport.metadata_checks.structural_validation.valid_pdf
  /\ ~vreport.forensic_assessment.metadata_detected

\* C8: in every report, scrubbing_successful = NOT metadata_detected, and
\* confidence_level is 'HIGH' exactly when metadata_detected is False,
\* otherwise 'LOW'.
C8_AssessmentConsistency ==
  vreport # NoReport =>
    LET a == vreport.forensic_assessment IN
    /\ a.scrubbing_successful = ~a.metadata_detected
    /\ a.confidence_level = "HIGH" <=> ~a.metadata_detected
    /\ a.confidence_level = "LOW" <=> a.metadata_detected

C8_Witness ==
  /\ vreport # NoReport
  /\ vreport.forensic_assessment.metadata_detected
  /\ vreport.forensic_assessment.confidence_level = "LOW"

\* Some finding list kept in the details of check 5 is non-empty.
SomeAdvancedFinding(d) ==
  \/ d.page_metadata # << >>
  \/ d.annotation_metadata # << >>
  \/ d.form_metadata # << >>
  \/ d.bookmark_metadata # << >>
  \/ d.thumbnail_metadata # << >>
  \/ d.color_profile_metadata # << >>
  \/ d.font_metadata # << >>
  \/ d.attribution_signatures # << >>

\* C9: for each of checks 1-5 the found flag is True exactly when the check's
\* details are non-empty: the metadata dict (1, 2), the pattern list (3), the
\* high-entropy object list (4), the finding lists of the details (5).
C9_CheckResultInvariant ==
  vreport # NoReport =>
    LET c == vreport.metadata_checks IN
    /\ c.pypdf2_metadata.found_metadata <=> c.pypdf2_metadata.details # {}
    /\ c.pikepdf_metadata.found_metadata <=> c.pikepdf_metadata.details # {}
    /\ c.binary_pattern_search.found_patterns <=>
         c.binary_pattern_search.patterns # << >>
    /\ c.steganography_detection.found_suspicious <=>
         c.steganography_detection.details.high_entropy_objects # << >>
    /\ c.advanced_metadata.found_metadata <=>
         SomeAdvancedFinding(c.advanced_metadata.details)

C9_Witness ==
  /\ vreport # NoReport
  /\ vreport.metadata_checks.advanced_metadata.found_metadata
  /\ vreport.metadata_checks.advanced_metadata.details.font_metadata # << >>
  /\ vreport.metadata_checks.advanced_metadata.details.page_metadata = << >>
  /\ ~vreport.metadata_checks.steganography_detection.found_suspicious
  /\ vreport.metadata_checks.pypdf2_metadata.details = {}

\* C10 as claimed: when the input path does not resolve to a readable file,
\* the call returns 'Input file does not exist' having invoked nothing and
\* created nothing.
C10_InputNotReadable ==
  (Terminal /\ (fs0["in"] = NoFile \/ ~fs0["in"].rawOK)) =>
    /\ result = Failure("Input file does not exist")
    /\ calls = << >>
    /\ fs = fs0

\* C10 as amended: when nothing exists at the input path, the call returns
\* 'Input file does not exist' at once, having invoked no validation, strategy
\* or sanitizer and having created no file.
C10_InputNotFound ==
  fs0["in"] = NoFile =>
    /\ pc \in {"start", "returned", "exited"}
    /\ calls = << >>
    /\ temp_files = << >>
    /\ fs = fs0
    /\ pc = "returned" => result = Failure("Input file does not exist")

C10_Witness ==
  /\ pc = "returned"
  /\ fs0["in"] = NoFile
  /\ result = Failure("Input file does not exist")

\* C11: the bytes the byte passes leave behind are exactly as many as the
\* bytes read: after _replace_binary_signatures, after the unscoped pass of
\* sanitize_binary_signatures, after every iteration of its scoped pass and
\* in what it writes, the buffer has the length of the input.
C11_LengthPreserved ==
  bpc \in {"replaced", "skipped", "scoped", "written"} =>
    Len(content) = Len(original)

\* A buffer both passes went through, written with tokens blanked.
C11_Witness ==
  /\ bpc = "written"
  /\ last.key # 0
  /\ content # original
  /\ Len(content) = Len(original)

\* The scoped iteration for the key found at pos, applied to a buffer as it
\* stands: the span after the key and the tokens blanked inside it.
ScopedIteration(buffer, key, pos) ==
  LET value_start == pos + Len(metadata_strings[key])
      scan == ValueScan(buffer, value_start, 0, FALSE)
  IN  [ value_start |-> value_start, value_end |-> scan.value_end,
        content |-> ValueLoop(buffer, value_start, scan.value_end,
                              Slice(buffer, value_start, scan.value_end),
                              FALSE, 1).content ]

\* C12: on b"/Producer (Adobe Acrobat 9.0)/Title (Report)" the scan of the
\* /Producer key takes the span from the end of the key to just after the
\* closing parenthesis, "Adobe" and "Acrobat" inside it become as many
\* blanks, and "/Title (Report)" and every byte outside the span stay as
\* they were: for the scoped iteration applied to these bytes and for
\* sanitize_binary_signatures as a whole.
C12_ScopedSample ==
  original = SampleBytes /\ bpc \in {"scoped", "written"} =>
    /\ content = SampleExpected
    /\ Slice(content, 29, 44) = Slice(SampleBytes, 29, 44)
    /\ last.key = 1 =>
         /\ last.pos = 0
         /\ last.value_start = 9
         /\ last.value_end = 29
    /\ LET it == ScopedIteration(SampleBytes, 1, 0)
       IN  /\ it.value_start = 9
           /\ it.value_end = 29
           /\ it.content = SampleExpected
           /\ \A i \in 1..Len(SampleBytes) :
                i <= it.value_start \/ i > it.value_end
                  => it.content[i] = SampleBytes[i]

\* The sample written, after the iterations for /Producer and /Title.
C12_Witness ==
  /\ original = SampleBytes
  /\ bpc = "written"
  /\ last.key = 4
  /\ content = SampleExpected
  /\ content # original

\* One byte value repeated: at least one byte, all the same.
OneValue(d) == Len(d) >= 1 /\ \A i \in 1..Len(d) : d[i] = d[1]

\* C13: calculate_entropy(b"") is 0.0, one byte value repeated any number of
\* times gives 0.0, bytes(range(256)) gives more than 7.9 bits, and every
\* result lies between 0 and 8 bits (here in thousandths of a bit).
C13_EntropyValues ==
  entropy # << >> =>
    /\ entropy[1] >= 0 /\ entropy[1] <= 8000
    /\ data = << >> => entropy[1] = 0
    /\ OneValue(data) => entropy[1] = 0
    /\ data = [ i \in 1..256 |-> i - 1 ] => entropy[1] > 7900

\* The entropy of bytes(range(256)), computed.
C13_Witness ==
  /\ data = [ i \in 1..256 |-> i - 1 ]
  /\ entropy = << 8000 >>

\* The sanitizer applied to d leaves d as it is and the validator finds in
\* the result what it finds in d.
SanitizerFixpoint(d) ==
  \A io \in BOOLEAN :
    /\ sanitize_embedded_objects(d, io) = d
    /\ forensic_validation(sanitize_embedded_objects(d, io))
         = forensic_validation(d)

C15_ExitCode ==
  exit_codes # << >> =>
    /\ Len(exit_codes) = 1
    /\ exit_codes[1] \in {0, 1}
    /\ exit_codes[1] = 0 <=>
         \/ /\ vreport # NoReport
            /\ ~vreport.forensic_assessment.metadata_detected
         \/ /\ pc = "returned"
            /\ result.success
            /\ ~result.final_analysis.forensic_assessment.metadata_detected
    /\ fs0["in"] = NoFile => exit_codes[1] = 1
    /\ pc = "returned" /\ ~result.success => exit_codes[1] = 1

\* A scrub that returned success with metadata in its final report, and the
\* exit code 1 that follows.
C15_Witness ==
  /\ pc = "returned"
  /\ result.success
  /\ result.final_analysis.forensic_assessment.metadata_detected
  /\ exit_codes = << 1 >>

\* The entries of calls that are strategy invocations, in order.
MethodCalls == SelectSeq(calls, LAMBDA c : c.op = "method")

\* C16: the strategies are invoked in the order reconstruct
\* (pikepdf_advanced), structural-clear (pikepdf_standard), minimal-rewrite
\* (pypdf2), each at most once; the sanitizer is invoked only directly after
\* a strategy that returned success, on that strategy's output; the validator
\* is run on a candidate only directly after a sanitizer that returned
\* success, and on the file the sanitizer wrote, not on the strategy's.
C16_PipelineShape ==
  /\ Len(MethodCalls) <= 3
  /\ \A k \in 1..Len(MethodCalls) :
       MethodCalls[k].arg
         = << "pikepdf_advanced", "pikepdf_standard", "pypdf2" >>[k]
  /\ \A p \in 1..Len(calls) :
       /\ calls[p].op = "sanitize_embedded_objects" =>
            /\ p > 1
            /\ calls[p - 1].op = "method"
            /\ calls[p - 1].ok
       /\ calls[p].op = "forensic_validation" /\ calls[p].arg \in Temps =>
            /\ p > 1
            /\ calls[p - 1].op = "sanitize_embedded_objects"
            /\ calls[p - 1].ok
            /\ calls[p].arg # calls[p - 1].arg
  /\ pc = "sanitize" =>
       /\ calls[Len(calls)] = Call("method", methods[method], TRUE)
       /\ \E producer \in BOOLEAN :
            fs[temp_file] = MethodOutput(method, fs["in"], producer)
  /\ pc = "validate" =>
       /\ calls[Len(calls)] = Call("sanitize_embedded_objects", temp_file, TRUE)
       /\ temp_file2 # temp_file
       /\ \E io \in BOOLEAN :
            fs[temp_file2] = SanitizerOutput(fs[temp_file], io, raised, FALSE)
  /\ pc = "copy" =>
       /\ calls[Len(calls)] = Call("forensic_validation", temp_file2, TRUE)
       /\ validation = forensic_validation(fs[temp_file2])

\* All three strategies invoked, the third one's output sanitized and the
\* sanitized file validated, which differs from the strategy's output.
C16_Witness ==
  /\ Len(MethodCalls) = 3
  /\ pc = "copy"
  /\ method = 3
  /\ fs[temp_file2] # fs[temp_file]
  /\ forensic_validation(fs[temp_file]) # validation

\* The positions of calls where the validator ran on path.
ValidationsOn(path) ==
  { p \in 1..Len(calls) :
      calls[p].op = "forensic_validation" /\ calls[p].arg = path }

\* C17: in a call on an existing input the validator runs first of all, and
\* once, on the original; once on every candidate the sanitizer returned
\* success for, directly after the sanitizer; and, a candidate accepted, once
\* more on the output path, as the last thing before the return, whose final
\* report is the report of that run.  The strategies run and a candidate with
\* a clean report is copied whatever the report of the original says.
C17_ValidatorSequence ==
  /\ calls # << >> =>
       /\ calls[1].op = "forensic_validation" /\ calls[1].arg = "in"
       /\ ValidationsOn("in") = {1}
       /\ calls[1].ok = original_validation.forensic_assessment.scrubbing_successful
  /\ \A t \in Temps : Cardinality(ValidationsOn(t)) <= 1
  /\ \A p \in 1..Len(calls) :
       /\ calls[p].op = "sanitize_embedded_objects" /\ calls[p].ok =>
            IF p = Len(calls) THEN pc = "validate"
            ELSE /\ calls[p + 1].op = "forensic_validation"
                 /\ calls[p + 1].arg \in Temps
       /\ calls[p].op = "forensic_validation" /\ calls[p].arg \in Temps
           /\ calls[p].ok =>
            IF p = Len(calls) THEN pc = "copy"
            ELSE calls[p + 1].op = "copy2"
  /\ accepted # 0 /\ pc # "returned" => ValidationsOn("out") = {}
  /\ accepted # 0 /\ pc = "returned" =>
       /\ ValidationsOn("out") = {Len(calls)}
       /\ result.success
       /\ result.final_analysis = final_validation
       /\ final_validation = forensic_validation(fs["out"])
       /\ result.original_analysis = original_validation
  /\ pc = "returned" /\ original_validation # NoReport =>
       Len(MethodCalls) >= 1

\* A call on an input whose own report is clean: the strategies ran all the
\* same, a candidate was accepted and the output path validated last.
C17_Witness ==
  /\ pc = "returned"
  /\ accepted # 0
  /\ original_validation.forensic_assessment.scrubbing_successful
  /\ Len(MethodCalls) >= 1
  /\ ValidationsOn("in") = {1}
  /\ ValidationsOn("out") = {Len(calls)}

\* C18: detect_steganography lists exactly the readable objects of more than
\* 100 bytes whose entropy is strictly above steganography_threshold (7.5
\* bits by default); an object of 100 bytes or fewer is never listed; and
\* steganography_detected is true exactly when the list is not empty.
C18_AnomalyPolicy ==
  vreport # NoReport =>
    LET d == vreport.metadata_checks.steganography_detection.details
        flagged == { d.high_entropy_objects[n].object_id :
                       n \in 1..Len(d.high_entropy_objects) }
        expected == { k \in 1..Len(vdoc.objs) :
                        /\ vdoc.pikeOK
                        /\ vdoc.objs[k].readable
                        /\ vdoc.objs[k].size > 100
                        /\ vdoc.objs[k].entropy > steganography_threshold }
    IN  /\ steganography_threshold = 75
        /\ flagged = expected
        /\ Len(d.high_entropy_objects) = Cardinality(expected)
        /\ \A k \in 1..Len(vdoc.objs) :
             vdoc.objs[k].size <= 100 => k \notin flagged
        /\ d.steganography_detected <=> flagged # {}

\* A document with an object of 101 bytes and 7.6 bits, flagged.
C18_Witness ==
  /\ vreport # NoReport
  /\ vdoc.pikeOK
  /\ \E k \in 1..Len(vdoc.objs) :
       /\ vdoc.objs[k].size = 101
       /\ vdoc.objs[k].entropy = 76
  /\ vreport.metadata_checks.steganography_detection.details
       .steganography_detected

\* The end of a value by the delimiter rule: from position at, with depth
\* literal strings open.  A ")" closes the innermost open string, and ends
\* the value when it closes the last one; a ")" with no string open closes
\* nothing; with no string open a "/" or ">>" ends the value just before
\* it; the end of the buffer ends it otherwise.
RECURSIVE RuleEnd(_, _, _)
RuleEnd(buffer, at, depth) ==
  IF at >= Len(buffer) THEN at
  ELSE IF buffer[at + 1] = OpenParen THEN RuleEnd(buffer, at + 1, depth + 1)
  ELSE IF buffer[at + 1] = CloseParen
    THEN IF depth = 1 THEN at + 1
         ELSE RuleEnd(buffer, at + 1, IF depth > 1 THEN depth - 1 ELSE 0)
  ELSE IF /\ depth = 0
          /\ \/ buffer[at + 1] = Slash
             \/ Slice(buffer, at, at + 2) = << Greater, Greater >>
    THEN at
  ELSE RuleEnd(buffer, at + 1, depth)

\* C19: the span the scoped scan resolves for a key occurrence starts right
\* after the key and ends where the delimiter rule says: just after the ")"
\* that closes the last open literal string, or at the first "/" or ">>"
\* met with no literal string open, a ")" that closes nothing included.
C19_DelimiterRule ==
  last.key # 0 =>
    /\ last.value_start = last.pos + Len(metadata_strings[last.key])
    /\ last.value_end = RuleEnd(content, last.value_start, 0)

\* What C20 says of every state of the scoped scan: the cursor stays inside
\* the buffer; the last iteration found its key at or after the cursor it
\* began with, took a span that lies inside the buffer and, where no
\* delimiter closed it, ends at the end of the buffer; it left the cursor at
\* the end of that span, beyond where it was; and the scan either has no key
\* left, and writes the buffer, or has one that lies inside the buffer.
ScanWithinBuffer ==
  /\ bpc \in {"scoped", "written"} =>
       /\ start >= 0 /\ start <= Len(content)
       /\ key_idx \in 1..Len(metadata_strings)
  /\ last.key # 0 =>
       /\ last.start <= last.pos
       /\ last.pos < last.value_start
       /\ last.value_start <= last.value_end
       /\ last.value_end <= Len(content)
       /\ ~last.closed => last.value_end = Len(content)
       /\ key_idx = last.key
       /\ start = last.value_end
       /\ start > last.start
  /\ bpc = "scoped" =>
       LET occ == NextOccurrence(content, key_idx, start)
       IN  \/ occ.key = 0
           \/ /\ occ.key \in key_idx..Len(metadata_strings)
              /\ occ.pos >= 0
              /\ occ.pos + Len(metadata_strings[occ.key]) <= Len(content)

\* What is left for the scoped scan to do: the keys after the current one,
\* each with the whole buffer to search, and the buffer beyond the cursor.
ScanRank ==
  (Len(metadata_strings) - key_idx) * (Len(content) + 1)
    + (Len(content) - start)

\* C20: on every buffer the scoped scan comes to its end without raising
\* (it always has a step to take until the buffer is written, and every
\* iteration lowers a rank that cannot go below zero), a span that no
\* delimiter closes ends at end-of-buffer, and every iteration leaves the
\* cursor of its key strictly beyond where it was.
C20_Totality ==
  /\ []ScanWithinBuffer
  /\ [][bpc = "scoped" /\ bpc' = "scoped" =>
          ScanRank' < ScanRank /\ ScanRank' >= 0]_vars

\* A scan that ended with its last span closed by nothing but the end of
\* the buffer.
C20_Witness ==
  /\ bpc = "written"
  /\ last.key # 0
  /\ ~last.closed
  /\ last.value_end = Len(content)
  /\ last.value_end > last.value_start
  /\ start > last.pos

\* C21: the flag sanitize_binary_signatures returns is true exactly when the
\* bytes it writes differ from the bytes it read, a vendor name in a
\* letter-case outside the list included.
C21_ChangesMadeFlag ==
  bpc = "written" => (changes_made <=> content # original)

\* The occurrences of key k in buffer, as positions.
KeyPositions(buffer, k) ==
  { pos \in 0..Len(buffer) : MatchAt(buffer, metadata_strings[k], pos) }

\* The scoped iteration applied to buffer for key k found at pos changes
\* bytes inside the span it resolves only.
SubstitutesInsideSpan(buffer, k, pos) ==
  LET it == ScopedIteration(buffer, k, pos)
  IN  /\ Len(it.content) = Len(buffer)
      /\ \A i \in 1..Len(buffer) :
           it.content[i] # buffer[i] => i > it.value_start /\ i <= it.value_end

\* C22: an iteration of the scoped scan leaves the cursor at the end of the
\* span it resolved; the next iteration for the same key finds its key at or
\* after that end, so that an occurrence of the key inside the span is
\* passed over; and an iteration changes bytes inside its span only, in the
\* scan as it runs and applied to the bytes as read.
C22_CursorAdvance ==
  /\ [](/\ last.key # 0 => start = last.value_end
        /\ bpc = "begin" =>
             \A k \in 1..Len(metadata_strings) :
               \A pos \in KeyPositions(content, k) :
                 SubstitutesInsideSpan(content, k, pos))
  /\ [][bpc = "scoped" /\ bpc' = "scoped" =>
          /\ last.key # 0 /\ last'.key = last.key =>
               last'.pos >= last.value_end
          /\ \A i \in 1..Len(content) :
               content'[i] # content[i] =>
                 i > last'.value_start /\ i <= last'.value_end]_vars

\* A scan that ended having passed over an occurrence of its key inside the
\* span of the occurrence before it.
C22_Witness ==
  /\ bpc = "written"
  /\ last.key # 0
  /\ \E pos \in KeyPositions(content, last.key) :
       pos >= last.value_start /\ pos < last.value_end

\* The annotations of list an that have a /Subtype of safe_types, in order.
SafeAnnots(an) == SelectSeq(an, LAMBDA a : a.Subtype \in safe_types)

\* C23: in the document the sanitizer has written, every annotation of the
\* page has a subtype of the safe list and none of the seven metadata keys;
\* the annotations are those of the input with a safe subtype, in order and
\* with their other keys, so that one with another subtype or none is gone;
\* and the page has no /Annots when none is left.
C23_AnnotationFilter ==
  pc = "validate" =>
    LET before == fs[temp_file]
        after == fs[temp_file2]
    IN /\ \A n \in 1..Len(after.annots) :
            /\ after.annots[n].Subtype \in safe_types
            /\ after.annots[n].keys \cap annot_metadata_keys = {}
       /\ Len(after.annots) = Len(SafeAnnots(before.annots))
       /\ \A n \in 1..Len(after.annots) :
            /\ after.annots[n].Subtype = SafeAnnots(before.annots)[n].Subtype
            /\ after.annots[n].keys =
                 SafeAnnots(before.annots)[n].keys \ annot_metadata_keys
       /\ after.hasAnnots <=> after.annots # << >>

\* A page whose only annotation was dropped and which has no /Annots left.
C23_Witness ==
  /\ pc = "validate"
  /\ fs[temp_file].hasAnnots /\ fs[temp_file].annots # << >>
  /\ ~fs[temp_file2].hasAnnots

\* C24: when sanitize_embedded_objects has returned, a failed access to a
\* key of the root, to a field of an annotation or to a field of a font has
\* not made it return failure; it has returned failure only if pdf.save
\* failed; and then there is no file at its output path.
C24_FailureSemantics ==
  Len(calls) > 0 /\ calls[Len(calls)].op = "sanitize_embedded_objects" =>
    /\ raised \in FieldFaults => calls[Len(calls)].ok
    /\ ~calls[Len(calls)].ok => raised = "save" /\ fs[temp_file2] = NoFile

\* C25: whenever control is in scrub_pdf, every document handle a strategy,
\* the sanitizer or the validator has opened or created is released, the
\* new document of scrub_method_reconstruct included.
C25_HandlesReleased ==
  handles = {}

\* The names a run has picked and may still use.
NamesInUse(p) ==
  IF runs[p].pc = "done" THEN {} ELSE runs[p].temp_files

\* C26: of two runs going on at once, neither has picked a temporary name
\* the other has picked and may still use, and neither has read or removed a
\* file the other wrote.
C26_Isolation ==
  \A p \in Procs : \A q \in Procs \ {p} :
    /\ NamesInUse(p) \cap NamesInUse(q) = {}
    /\ ~runs[p].foreign

\* The test scrub_pdf makes on a candidate's report before it copies the
\* candidate to the output path.
CandidateAccepted(report) == report.forensic_assessment.scrubbing_successful

\* C27: in the report of a file on which PyPDF2 fails (or the open before
\* it), check 1 has the entry "error" in its details and found_metadata
\* true; on which pikepdf fails, check 2 has them; on which the raw read
\* fails, check 3 has the error entry in its patterns and found_patterns
\* true; in each case metadata_detected is true and scrub_pdf's test of the
\* report rejects the file.
C27_FailClosedReaders ==
  vreport # NoReport =>
    LET checks == vreport.metadata_checks IN
    /\ ~vdoc.rawOK \/ ~vdoc.pyOK =>
         /\ "error" \in checks.pypdf2_metadata.details
         /\ checks.pypdf2_metadata.found_metadata
    /\ ~vdoc.pikeOK =>
         /\ "error" \in checks.pikepdf_metadata.details
         /\ checks.pikepdf_metadata.found_metadata
    /\ ~vdoc.rawOK =>
         /\ \E n \in 1..Len(checks.binary_pattern_search.patterns) :
              checks.binary_pattern_search.patterns[n] = "Binary search error"
         /\ checks.binary_pattern_search.found_patterns
    /\ ~vdoc.rawOK \/ ~vdoc.pyOK \/ ~vdoc.pikeOK =>
         /\ vreport.forensic_assessment.metadata_detected
         /\ ~CandidateAccepted(vreport)

\* A report in which the failure of PyPDF2 is the only finding.
C27_Witness ==
  /\ vreport # NoReport
  /\ ~vdoc.pyOK /\ vdoc.rawOK /\ vdoc.pikeOK
  /\ vreport.metadata_checks.pypdf2_metadata.details = {"error"}
  /\ ~vreport.metadata_checks.pikepdf_metadata.found_metadata
  /\ ~vreport.metadata_checks.binary_pattern_search.found_patterns
  /\ ~vreport.metadata_checks.steganography_detection.found_suspicious
  /\ ~vreport.metadata_checks.advanced_metadata.found_metadata
  /\ vreport.forensic_assessment.metadata_detected

\* C28: during and after a scrub_pdf call (the output path is not the input
\* path) the file at the input path is the one that was there at the call,
\* whether a candidate is accepted, every method fails or there is no input;
\* a strategy and the sanitizer with its byte pass change the file at their
\* temporary name only, the copy changes the output path only, the cleanup
\* the temporary names only, and a validation changes no file.
C28_InputUnmodified ==
  /\ [](fs["in"] = fs0["in"])
  /\ [][/\ pc \in {"method", "sanitize"} =>
            \A p \in Paths \ {temp_files'[Len(temp_files')]} : fs'[p] = fs[p]
        /\ pc = "copy" => \A p \in Paths \ {"out"} : fs'[p] = fs[p]
        /\ pc = "cleanup" => \A p \in Paths \ Temps : fs'[p] = fs[p]
        /\ pc \in {"start", "analyze", "validate", "finish", "returned"} =>
             fs' = fs]_vars

\* A call that returned success with a new file at the output path that
\* differs from the input, the input being as it was.
C28_Witness ==
  /\ pc = "returned"
  /\ result.success
  /\ accepted # 0
  /\ fs["out"] # fs0["out"]
  /\ fs["out"] # fs["in"]
  /\ fs["in"] = fs0["in"]
  /\ fs0["in"].docinfo # {}

\* Byte i (counted from 1) of buffer lies inside an occurrence of one of
\* tokens.
InToken(buffer, i, tokens) ==
  \E k \in 1..Len(tokens) :
    \E pos \in 0..(i - 1) :
      /\ i <= pos + Len(tokens[k])
      /\ MatchAt(buffer, tokens[k], pos)

\* C29: what a byte pass has made of a buffer has, at each position, the
\* byte that was read or a blank, and a byte that was changed lay inside an
\* occurrence, in the bytes read, of a token of the pass: "Adobe" or "adobe"
\* for _replace_binary_signatures, a token of attribution_patterns for
\* sanitize_binary_signatures.
C29_SubstitutionFrame ==
  bpc \in {"replaced", "skipped", "scoped", "written"} =>
    /\ Len(content) = Len(original)
    /\ \A i \in 1..Len(original) :
         \/ content[i] = original[i]
         \/ /\ content[i] = Blank
            /\ InToken(original, i,
                        IF bpc \in {"replaced", "skipped"}
                          THEN << replacements[1][1], replacements[2][1] >>
                          ELSE attribution_patterns)

\* A buffer written with some bytes blanked and others, not blank, kept.
C29_Witness ==
  /\ bpc = "written"
  /\ \E i \in 1..Len(original) : content[i] = Blank /\ original[i] # Blank
  /\ \E i \in 1..Len(original) : content[i] = original[i] /\ original[i] # Blank

\* No token of the sequence tokens occurs in buffer.
NoneOccurs(buffer, tokens) ==
  \A k \in 1..Len(tokens) : ~Contains(buffer, tokens[k])

====
